---- MODULE Spec2Model ----
(***************************************************************************)
(* Model of aws-account-closure-notifier-lambda.py: one Lambda process     *)
(* that loads its configuration from the environment at import time and    *)
(* then serves invocations of lambda_handler one after the other.  Each    *)
(* invocation extracts event['detail'], filters on eventName, and calls    *)
(* send_sns_notification and (if enabled) send_slack_notification.         *)
(*                                                                         *)
(* Python values: str is a TLA+ string, dict is a function whose domain is *)
(* the set of keys present, d[k] raises KeyError when k is absent and      *)
(* d.get(k) yields None when k is absent.  An expression that can raise is *)
(* modelled by a result [err, val]: err is the exception type or "".       *)
(***************************************************************************)
EXTENDS Integers, Sequences, FiniteSets, TLC

VARIABLES
    SLACK_ENDPOINT,      \* os.environ.get('SLACK_ENDPOINT'), Unset for None
    SLACK_NOTIFICATION,  \* strtobool(...): 1 or 0
    SNS_TOPIC_ARN,       \* os.environ.get("SNS_TOPIC_ARN"), Unset for None
    pc,                  \* position of the current invocation
    event,               \* the event of the current (or last) invocation
    calls,               \* outbound calls made by the current invocation
    log,                 \* logger.exception records of the current invocation
    outcome,             \* how the invocation ended
    raised               \* the exception that reached the host, if any

vars == <<SLACK_ENDPOINT, SLACK_NOTIFICATION, SNS_TOPIC_ARN, pc, event,
          calls, log, outcome, raised>>

(***************************************************************************)
(* Bounds of the model                                                     *)
(***************************************************************************)
MaxPrincipalLen == 3

(***************************************************************************)
(* Strings                                                                 *)
(***************************************************************************)
\* the first index >= from at which sub occurs in s, 0 if none
Find(s, sub, from) ==
    LET hits == {i \in from..(Len(s) - Len(sub) + 1) :
                     SubSeq(s, i, i + Len(sub) - 1) = sub}
    IN  IF hits = {} THEN 0 ELSE CHOOSE i \in hits : \A j \in hits : i <= j

RECURSIVE split(_, _)
\* str.split(sep): the list of the pieces of s between occurrences of sep
split(s, sep) ==
    LET i == Find(s, sep, 1)
    IN  IF i = 0 THEN <<s>>
        ELSE <<SubSeq(s, 1, i - 1)>> \o split(SubSeq(s, i + Len(sep), Len(s)), sep)

UpperCase == "ABCDEFGHIJKLMNOPQRSTUVWXYZ"
LowerCase == "abcdefghijklmnopqrstuvwxyz"

RECURSIVE lower(_)
\* str.lower()
lower(s) ==
    IF s = "" THEN ""
    ELSE LET c == SubSeq(s, 1, 1)
             i == Find(UpperCase, c, 1)
         IN  (IF i = 0 THEN c ELSE SubSeq(LowerCase, i, i))
                 \o lower(SubSeq(s, 2, Len(s)))

(***************************************************************************)
(* Results of expressions that may raise                                   *)
(***************************************************************************)
Ok(v) == [err |-> "", val |-> v]
Err(t) == [err |-> t, val |-> ""]
NoException == [type |-> "", in |-> ""]

(***************************************************************************)
(* Configuration, read once at import (lines 30-32)                        *)
(***************************************************************************)
Unset == "<unset>"

\* distutils.util.strtobool: 1, 0, or ValueError
strtobool(val) ==
    LET v == lower(val)
    IN  IF v \in {"y", "yes", "t", "true", "on", "1"} THEN Ok(1)
        ELSE IF v \in {"n", "no", "f", "false", "off", "0"} THEN Ok(0)
        ELSE Err("ValueError")

\* strtobool(os.environ.get("SLACK_NOTIFICATION", "false"))
SlackNotificationOf(env) == strtobool(IF env = Unset THEN "false" ELSE env)

SlackNotificationEnv == {Unset, "true", "True", "false", "FALSE", "1", "0", "yes", "off", "maybe"}
SlackEndpointEnv == {Unset, "https://hooks.slack.com/services/T0/B0/X0"}
SnsTopicArnEnv == {Unset, "arn:aws:sns:us-east-1:111122223333:closure"}

(***************************************************************************)
(* Events                                                                  *)
(***************************************************************************)
RECURSIVE StringsOfLen(_, _)
StringsOfLen(alphabet, n) ==
    IF n = 0 THEN {""}
    ELSE {s \o c : s \in StringsOfLen(alphabet, n - 1), c \in alphabet}

PrincipalIds ==
    {"AIDAEXAMPLE:bob", "AIDAEXAMPLE"}
        \cup UNION {StringsOfLen({"b", ":"}, n) : n \in 0..MaxPrincipalLen}

EventNames ==
    {"CloseAccount", "RemoveAccountFromOrganization", "CloseAccountX",
     "closeaccount", "CreateAccount"}
EventTimes == {"2024-01-01T00:00:00Z"}
AccountIds == {"123456789012"}

\* dicts: every subset of the keys may be present
RequestParameters ==
    {[k \in ks |-> a] : ks \in SUBSET {"accountId"}, a \in AccountIds}
UserIdentities ==
    {[k \in ks |-> p] : ks \in SUBSET {"principalId"}, p \in PrincipalIds}

Details ==
    {[k \in ks |-> CASE k = "eventName" -> n
                      [] k = "eventTime" -> t
                      [] k = "requestParameters" -> rp
                      [] k = "userIdentity" -> ui] :
        ks \in SUBSET {"eventName", "eventTime", "requestParameters", "userIdentity"},
        n \in EventNames, t \in EventTimes,
        rp \in RequestParameters, ui \in UserIdentities}

Events ==
    {[source |-> "aws.organizations"]} \cup {[detail |-> d] : d \in Details}

NoEvent == [k \in {} |-> ""]

(***************************************************************************)
(* Initial state: the module has been imported                             *)
(***************************************************************************)
Init ==
    /\ SLACK_ENDPOINT \in SlackEndpointEnv
    /\ \E env \in SlackNotificationEnv :
          /\ SlackNotificationOf(env).err = ""
          /\ SLACK_NOTIFICATION = SlackNotificationOf(env).val
    /\ SNS_TOPIC_ARN \in SnsTopicArnEnv
    /\ pc = "idle"
    /\ event = NoEvent
    /\ calls = <<>>
    /\ log = <<>>
    /\ outcome = ""
    /\ raised = NoException

(***************************************************************************)
(* Formatting (the f-strings of lines 45-51 and 64-97)                     *)
(***************************************************************************)
\* f"{d.get(k)}": the value, or the text of None
GetText(d, k) == IF k \in DOMAIN d THEN d[k] ELSE "None"

\* f"{message_detail.get('requestParameters').get('accountId')}"
AccountIdText(d) ==
    IF "requestParameters" \notin DOMAIN d THEN Err("AttributeError")
    ELSE Ok(GetText(d["requestParameters"], "accountId"))

\* mutant: takes segment 0 of the split
PrincipalText_FirstSegment(d) ==
    IF "userIdentity" \notin DOMAIN d THEN Err("AttributeError")
    ELSE IF "principalId" \notin DOMAIN d["userIdentity"] THEN Err("AttributeError")
    ELSE Ok(split(d["userIdentity"]["principalId"], ":")[1])

\* f"{message_detail.get('userIdentity').get('principalId').split(':')[1]}"
PrincipalText(d) ==
    IF "userIdentity" \notin DOMAIN d THEN Err("AttributeError")
    ELSE IF "principalId" \notin DOMAIN d["userIdentity"] THEN Err("AttributeError")
    ELSE LET parts == split(d["userIdentity"]["principalId"], ":")
         IN  IF Len(parts) < 2 THEN Err("IndexError") ELSE Ok(parts[2])

\* line 45 and line 71
SubjectText(d) == "AWS " \o GetText(d, "eventName") \o " Notification"

\* lines 46-51: the Message argument of sns_client.publish
SnsMessage(d) ==
    LET a == AccountIdText(d)
        p == PrincipalText(d)
    IN  IF a.err # "" THEN Err(a.err)
        ELSE IF p.err # "" THEN Err(p.err)
        ELSE Ok(GetText(d, "eventName") \o " action has been made for Account "
                    \o a.val \o "\n\n"
                    \o "Action: " \o GetText(d, "eventName") \o " \n"
                    \o "   Target Account: " \o a.val \o "\n"
                    \o "   Calling Principal: " \o p.val \o " \n"
                    \o "   TimeStamp: " \o GetText(d, "eventTime"))

RECURSIVE JsonEscape(_)
\* json.dumps of the characters of a str
JsonEscape(s) ==
    IF s = "" THEN ""
    ELSE LET c == SubSeq(s, 1, 1)
         IN  (CASE c = "\"" -> "\\\""
                [] c = "\\" -> "\\\\"
                [] c = "\n" -> "\\n"
                [] OTHER -> c) \o JsonEscape(SubSeq(s, 2, Len(s)))

\* json.dumps of a str
JsonStr(s) == "\"" \o JsonEscape(s) \o "\""

\* json.dumps of {"type": "mrkdwn", "text": text}
MrkdwnField(text) == "{\"type\": \"mrkdwn\", \"text\": " \o JsonStr(text) \o "}"

\* lines 64-97: message_body
SlackMessageBody(d) ==
    LET a == AccountIdText(d)
        p == PrincipalText(d)
    IN  IF a.err # "" THEN Err(a.err)
        ELSE IF p.err # "" THEN Err(p.err)
        ELSE Ok("{\"blocks\": [{\"type\": \"header\", \"text\": "
                    \o "{\"type\": \"plain_text\", \"text\": "
                    \o JsonStr(SubjectText(d)) \o "}}, "
                    \o "{\"type\": \"section\", \"fields\": ["
                    \o MrkdwnField("*Action:*\n" \o GetText(d, "eventName")) \o ", "
                    \o MrkdwnField("*Target Account:*\n" \o a.val) \o ", "
                    \o MrkdwnField("*Calling Principal:*\n" \o p.val) \o ", "
                    \o MrkdwnField("*TimeStamp:*\n" \o GetText(d, "eventTime"))
                    \o "]}]}")

(***************************************************************************)
(* The outside world: whether a call returns or throws                     *)
(***************************************************************************)
\* sns_client.publish returns, or throws (always, with TopicArn=None)
PublishResults == IF SNS_TOPIC_ARN = Unset THEN {"throws"} ELSE {"ok", "throws"}

\* http.request returns a response, or throws (always, with url None)
PostResults == IF SLACK_ENDPOINT = Unset THEN {"throws"} ELSE {"ok", "throws"}

\* lines 43-51: the call sns_client.publish(...), with how it ended
PublishCall(d, message, r) ==
    [api |-> "sns.publish", TopicArn |-> SNS_TOPIC_ARN, Subject |-> SubjectText(d),
     Message |-> message, result |-> r]

\* lines 101-106: the call http.request('POST', ...), with how it ended
PostCall(message_body, r) ==
    [api |-> "http.request", method |-> "POST", url |-> SLACK_ENDPOINT,
     content_type |-> "application/json", body |-> message_body, result |-> r]

Exception(msg, err) == [level |-> "exception", message |-> msg, error |-> err]

(***************************************************************************)
(* lambda_handler                                                          *)
(***************************************************************************)
AllowList == {"CloseAccount", "RemoveAccountFromOrganization"}

\* mutant: a substring match instead of the exact match
EventFilter_Substring(name) == \E a \in AllowList : Find(name, a, 1) # 0

\* line 126: message_detail['eventName'] in [...]
EventFilter(name) == name \in AllowList

\* mutant: tests that the flag is set instead of its truth value
SlackEnabled_IsSet == SLACK_NOTIFICATION \in {0, 1}

\* line 130: if SLACK_NOTIFICATION
SlackEnabled == SLACK_NOTIFICATION # 0

Fail(type, where) ==
    /\ pc' = "done"
    /\ outcome' = "failed"
    /\ raised' = [type |-> type, in |-> where]

\* mutant: the chat dispatch is called first, the publish is skipped
lambda_handler_SlackFirst(e) ==
    /\ pc \in {"idle", "done"}
    /\ event' = e
    /\ calls' = <<>>
    /\ log' = <<>>
    /\ IF "detail" \notin DOMAIN e \/ "eventName" \notin DOMAIN e["detail"]
       THEN Fail("KeyError", "lambda_handler")
       ELSE IF EventFilter(e["detail"]["eventName"])
       THEN IF \/ "requestParameters" \notin DOMAIN e["detail"]
               \/ "accountId" \notin DOMAIN e["detail"]["requestParameters"]
            THEN Fail("KeyError", "lambda_handler")
            ELSE /\ pc' = IF SlackEnabled THEN "send_slack_notification"
                          ELSE "send_sns_notification"
                 /\ outcome' = ""
                 /\ raised' = NoException
       ELSE /\ pc' = "done"
            /\ outcome' = "ignored"
            /\ raised' = NoException
    /\ UNCHANGED <<SLACK_ENDPOINT, SLACK_NOTIFICATION, SNS_TOPIC_ARN>>

\* lines 124-129 and 133-134: up to the call of send_sns_notification
lambda_handler(e) ==
    /\ pc \in {"idle", "done"}
    /\ event' = e
    /\ calls' = <<>>
    /\ log' = <<>>
    /\ IF "detail" \notin DOMAIN e
       THEN Fail("KeyError", "lambda_handler")
       ELSE LET message_detail == e["detail"]
            IN  IF "eventName" \notin DOMAIN message_detail
                THEN Fail("KeyError", "lambda_handler")
                ELSE IF EventFilter(message_detail["eventName"])
                THEN IF \/ "requestParameters" \notin DOMAIN message_detail
                        \/ "accountId" \notin DOMAIN message_detail["requestParameters"]
                     THEN Fail("KeyError", "lambda_handler")
                     ELSE /\ pc' = "send_sns_notification"
                          /\ outcome' = ""
                          /\ raised' = NoException
                ELSE /\ pc' = "done"
                     /\ outcome' = "ignored"
                     /\ raised' = NoException
    /\ UNCHANGED <<SLACK_ENDPOINT, SLACK_NOTIFICATION, SNS_TOPIC_ARN>>

\* mutant: no try/except around the publish, its exception propagates
send_sns_notification_Propagates ==
    /\ pc = "send_sns_notification"
    /\ LET message_detail == event["detail"]
           m == SnsMessage(message_detail)
       IN  IF m.err # ""
           THEN /\ Fail(m.err, "send_sns_notification")
                /\ UNCHANGED <<calls, log>>
           ELSE \E r \in PublishResults :
                   /\ calls' = Append(calls, PublishCall(message_detail, m.val, r))
                   /\ log' = log
                   /\ IF r = "ok"
                      THEN pc' = "line_130" /\ UNCHANGED <<outcome, raised>>
                      ELSE Fail("PublishError", "send_sns_notification")
    /\ UNCHANGED <<SLACK_ENDPOINT, SLACK_NOTIFICATION, SNS_TOPIC_ARN, event>>

\* mutant: a publish that throws is tried once more
send_sns_notification_Retry ==
    /\ pc = "send_sns_notification"
    /\ LET message_detail == event["detail"]
           m == SnsMessage(message_detail)
       IN  IF m.err # ""
           THEN /\ calls' = calls
                /\ log' = Append(log, Exception("Failed to send SNS notification", m.err))
           ELSE \E r \in PublishResults :
                   IF r = "ok"
                   THEN /\ calls' = Append(calls, PublishCall(message_detail, m.val, r))
                        /\ log' = log
                   ELSE \E r2 \in PublishResults :
                           /\ calls' = calls \o <<PublishCall(message_detail, m.val, r),
                                                   PublishCall(message_detail, m.val, r2)>>
                           /\ log' = Append(log, Exception("Failed to send SNS notification",
                                                           "PublishError"))
    /\ pc' = "line_130"
    /\ UNCHANGED <<SLACK_ENDPOINT, SLACK_NOTIFICATION, SNS_TOPIC_ARN, event,
                   outcome, raised>>

\* lines 42-54
send_sns_notification ==
    /\ pc = "send_sns_notification"
    /\ LET message_detail == event["detail"]
           m == SnsMessage(message_detail)
       IN  IF m.err # ""
           THEN /\ calls' = calls
                /\ log' = Append(log, Exception("Failed to send SNS notification", m.err))
           ELSE \E r \in PublishResults :
                   /\ calls' = Append(calls, PublishCall(message_detail, m.val, r))
                   /\ log' = IF r = "ok" THEN log
                             ELSE Append(log, Exception("Failed to send SNS notification",
                                                        "PublishError"))
    /\ pc' = "line_130"
    /\ UNCHANGED <<SLACK_ENDPOINT, SLACK_NOTIFICATION, SNS_TOPIC_ARN, event,
                   outcome, raised>>

\* lines 130-132: back in lambda_handler after send_sns_notification returned
lambda_handler_line_130 ==
    /\ pc = "line_130"
    /\ IF SlackEnabled
       THEN /\ pc' = "send_slack_notification"
            /\ outcome' = outcome
       ELSE /\ pc' = "done"
            /\ outcome' = "notified"
    /\ UNCHANGED <<SLACK_ENDPOINT, SLACK_NOTIFICATION, SNS_TOPIC_ARN, event,
                   calls, log, raised>>

\* mutant: no try/except around the POST, its exception propagates
send_slack_notification_Propagates ==
    /\ pc = "send_slack_notification"
    /\ LET message_detail == event["detail"]
           message_body == SlackMessageBody(message_detail)
       IN  IF message_body.err # ""
           THEN /\ Fail(message_body.err, "send_slack_notification")
                /\ UNCHANGED <<calls, log>>
           ELSE \E r \in PostResults :
                   /\ calls' = Append(calls, PostCall(message_body.val, r))
                   /\ log' = log
                   /\ IF r = "ok"
                      THEN pc' = "done" /\ outcome' = "notified" /\ raised' = NoException
                      ELSE Fail("RequestError", "send_slack_notification")
    /\ UNCHANGED <<SLACK_ENDPOINT, SLACK_NOTIFICATION, SNS_TOPIC_ARN, event>>

\* lines 64-109, and the return of lambda_handler
send_slack_notification ==
    /\ pc = "send_slack_notification"
    /\ LET message_detail == event["detail"]
           message_body == SlackMessageBody(message_detail)
       IN  IF message_body.err # ""
           THEN /\ Fail(message_body.err, "send_slack_notification")
                /\ UNCHANGED <<calls, log>>
           ELSE \E r \in PostResults :
                   /\ calls' = Append(calls, PostCall(message_body.val, r))
                   /\ log' = IF r = "ok" THEN log
                             ELSE Append(log, Exception("Failed to send SLACK notification",
                                                        "RequestError"))
                   /\ pc' = "done"
                   /\ outcome' = "notified"
                   /\ raised' = NoException
    /\ UNCHANGED <<SLACK_ENDPOINT, SLACK_NOTIFICATION, SNS_TOPIC_ARN, event>>

Next ==
    \/ \E e \in Events : lambda_handler(e)
    \/ send_sns_notification
    \/ lambda_handler_line_130
    \/ send_slack_notification

Spec == Init /\ [][Next]_vars

(***************************************************************************)
(* Vocabulary of the properties.  These read the event and the calls on    *)
(* their own, without the operators of the handler.                        *)
(***************************************************************************)
ClosureActions == {"CloseAccount", "RemoveAccountFromOrganization"}
RequiredFields == {"eventName", "eventTime", "requestParameters", "userIdentity"}

HasDetail == "detail" \in DOMAIN event
HasEventName == HasDetail /\ "eventName" \in DOMAIN event["detail"]
AllowListed == HasEventName /\ event["detail"]["eventName"] \in ClosureActions
NotAllowListed == HasEventName /\ event["detail"]["eventName"] \notin ClosureActions

HasPrincipalId ==
    /\ HasDetail
    /\ "userIdentity" \in DOMAIN event["detail"]
    /\ "principalId" \in DOMAIN event["detail"]["userIdentity"]
HasAccountId ==
    /\ HasDetail
    /\ "requestParameters" \in DOMAIN event["detail"]
    /\ "accountId" \in DOMAIN event["detail"]["requestParameters"]
AllFieldsPresent ==
    /\ HasDetail
    /\ RequiredFields \subseteq DOMAIN event["detail"]
    /\ HasAccountId
    /\ HasPrincipalId
HasColon(s) == \E i \in 1..Len(s) : SubSeq(s, i, i) = ":"
WellFormed == AllFieldsPresent /\ HasColon(event["detail"]["userIdentity"]["principalId"])
Malformed == ~AllFieldsPresent

Publishes == {i \in DOMAIN calls : calls[i].api = "sns.publish"}
Posts == {i \in DOMAIN calls : calls[i].api = "http.request"}
Running == pc \in {"send_sns_notification", "line_130", "send_slack_notification"}
ReturnedNormally == pc = "done" /\ outcome \in {"ignored", "notified"} /\ raised = NoException
Swallowed(msg) == \E k \in DOMAIN log : log[k].message = msg

\* the text of s after label, up to the next stop (or to the end of s)
TextBetween(s, label, stop) ==
    LET i == Find(s, label, 1)
        from == i + Len(label)
        j == Find(s, stop, from)
    IN  IF i = 0 THEN "<no such label>"
        ELSE SubSeq(s, from, IF j = 0 THEN Len(s) ELSE j - 1)

\* the second colon-delimited segment of a principalId that has a colon
SecondSegment(s) ==
    LET i == CHOOSE k \in 1..Len(s) :
                 SubSeq(s, k, k) = ":" /\ \A m \in 1..(k - 1) : SubSeq(s, m, m) # ":"
        rest == SubSeq(s, i + 1, Len(s))
    IN  IF HasColon(rest) THEN TextBetween(s, SubSeq(s, 1, i), ":") ELSE rest

\* what a subscriber reads in the plain-text message
PlainFields(m) ==
    [action |-> TextBetween(m, "\nAction: ", " \n"),
     account |-> TextBetween(m, "   Target Account: ", "\n"),
     principal |-> TextBetween(m, "   Calling Principal: ", " \n"),
     timestamp |-> TextBetween(m, "   TimeStamp: ", "\n")]

\* what the chat platform reads in the JSON document
BlockFields(b) ==
    [header |-> TextBetween(b, "{\"type\": \"plain_text\", \"text\": \"", "\""),
     action |-> TextBetween(b, "\"text\": \"*Action:*\\n", "\""),
     account |-> TextBetween(b, "\"text\": \"*Target Account:*\\n", "\""),
     principal |-> TextBetween(b, "\"text\": \"*Calling Principal:*\\n", "\""),
     timestamp |-> TextBetween(b, "\"text\": \"*TimeStamp:*\\n", "\"")]

\* the four values of the event of the current invocation
EventFields ==
    [action |-> event["detail"]["eventName"],
     account |-> event["detail"]["requestParameters"]["accountId"],
     principal |-> SecondSegment(event["detail"]["userIdentity"]["principalId"]),
     timestamp |-> event["detail"]["eventTime"]]

(***************************************************************************)
(* Properties                                                              *)
(***************************************************************************)

\* C1: an event whose eventName is not exactly one of the two closure
\* actions (a longer name, another case, another action) never reaches a
\* dispatch function, makes no publish and no POST whatever the chat flag
\* is, and its invocation ends normally as "ignored".
C1_OtherEventsIgnored ==
    NotAllowListed =>
        /\ ~Running
        /\ calls = <<>>
        /\ pc = "done" => (outcome = "ignored" /\ raised = NoException)

C1_Witness ==
    /\ pc = "done"
    /\ HasEventName
    /\ event["detail"]["eventName"] = "CloseAccountX"
    /\ SLACK_NOTIFICATION = 1
    /\ outcome = "ignored"

\* C2: for a well-formed allow-listed event, a publish that throws still
\* lets the invocation return normally and, with the chat flag on, is
\* followed by a POST attempt; a POST that throws does not fail the
\* invocation either.
C2_DispatchIndependence ==
    (WellFormed /\ AllowListed /\ pc = "done") =>
        /\ \A i \in Publishes :
              calls[i].result = "throws" =>
                  /\ ReturnedNormally
                  /\ SLACK_NOTIFICATION # 0 => \E j \in Posts : j > i
        /\ \A j \in Posts : calls[j].result = "throws" => ReturnedNormally

C2_Witness ==
    /\ pc = "done"
    /\ WellFormed /\ AllowListed
    /\ Len(calls) = 2
    /\ calls[1].api = "sns.publish" /\ calls[1].result = "throws"
    /\ calls[2].api = "http.request" /\ calls[2].result = "ok"
    /\ outcome = "notified"

\* C3: with the chat flag false, send_slack_notification is never entered
\* and no POST is made, for any event and any publish result.
C3_FlagGating ==
    SLACK_NOTIFICATION = 0 => (pc # "send_slack_notification" /\ Posts = {})

C3_Witness ==
    /\ SLACK_NOTIFICATION = 0
    /\ pc = "done"
    /\ AllowListed
    /\ outcome = "notified"
    /\ Publishes # {}
    /\ calls[1].result = "throws"

\* C4: an allow-listed event whose principalId has no colon ends its
\* invocation with an error, for both values of the chat flag.
C4_NoColonIsAnError ==
    (/\ pc = "done"
     /\ AllowListed
     /\ HasPrincipalId
     /\ ~HasColon(event["detail"]["userIdentity"]["principalId"]))
        => (outcome = "failed" /\ raised # NoException)

\* C5: an event that lacks detail or one of the four fields ends in failure
\* with neither a publish nor a POST attempted.  Stated for the events the
\* filter does not turn away, which are the ones that reach the formatter.
C5_MalformedIsFatal ==
    (Malformed /\ ~NotAllowListed /\ event # NoEvent) =>
        /\ calls = <<>>
        /\ pc = "done" => (outcome = "failed" /\ raised # NoException)

\* C6: for a well-formed allow-listed event, the plain-text message and the
\* block document both carry the action, account, principal (second
\* colon-delimited segment of principalId) and timestamp of the event of
\* this invocation, and the header of the document is the publish subject
\* "AWS <eventName> Notification".
C6_SameFieldsVerbatim ==
    (WellFormed /\ AllowListed) =>
        /\ \A i \in Publishes :
              /\ calls[i].Subject = "AWS " \o EventFields.action \o " Notification"
              /\ PlainFields(calls[i].Message) = EventFields
        /\ \A j \in Posts :
              LET b == BlockFields(calls[j].body)
              IN  /\ b.header = "AWS " \o EventFields.action \o " Notification"
                  /\ \A i \in Publishes : b.header = calls[i].Subject
                  /\ [f \in DOMAIN EventFields |-> b[f]] = EventFields

C6_Witness ==
    /\ pc = "done"
    /\ WellFormed /\ AllowListed
    /\ event["detail"]["userIdentity"]["principalId"] = "AIDAEXAMPLE:bob"
    /\ Publishes # {} /\ Posts # {}
    /\ \A j \in Posts : BlockFields(calls[j].body).principal = "bob"

\* C7: for a well-formed allow-listed event one invocation makes exactly
\* one publish attempt, with subject "AWS <eventName> Notification", and
\* exactly one POST attempt with the chat flag on, none with it off; a
\* failed attempt is not repeated.
C7_ExactlyOnce ==
    (WellFormed /\ AllowListed) =>
        /\ Cardinality(Publishes) <= 1
        /\ Cardinality(Posts) <= 1
        /\ pc = "done" =>
              /\ Cardinality(Publishes) = 1
              /\ \A i \in Publishes :
                    calls[i].Subject
                        = "AWS " \o event["detail"]["eventName"] \o " Notification"
              /\ Cardinality(Posts) = IF SLACK_NOTIFICATION # 0 THEN 1 ELSE 0

C7_Witness ==
    /\ pc = "done"
    /\ WellFormed /\ AllowListed
    /\ SLACK_NOTIFICATION = 1
    /\ Len(calls) = 2
    /\ calls[1].result = "throws"
    /\ calls[2].result = "throws"

\* C8: every invocation ends as "ignored", "notified" or "failed", and
\* "failed" comes only from the extraction in lambda_handler, never from
\* inside or after send_sns_notification / send_slack_notification.
C8_FailedOnlyFromExtraction ==
    pc = "done" =>
        /\ outcome \in {"ignored", "notified", "failed"}
        /\ outcome = "failed" => (raised.in = "lambda_handler" /\ log = <<>>)

\* C9: for a well-formed allow-listed event with the chat flag on and no
\* SLACK_ENDPOINT, the publish is still attempted, the webhook call fails
\* and is swallowed, and lambda_handler returns normally.
C9_MissingEndpointNotFatal ==
    (/\ WellFormed /\ AllowListed
     /\ SLACK_NOTIFICATION # 0
     /\ SLACK_ENDPOINT = Unset
     /\ pc = "done") =>
        /\ Publishes # {}
        /\ Posts # {}
        /\ \A j \in Posts : calls[j].result = "throws"
        /\ Swallowed("Failed to send SLACK notification")
        /\ ReturnedNormally

C9_Witness ==
    /\ pc = "done"
    /\ WellFormed /\ AllowListed
    /\ SLACK_NOTIFICATION = 1
    /\ SLACK_ENDPOINT = Unset
    /\ Len(calls) = 2
    /\ calls[1].result = "ok"
    /\ outcome = "notified"

\* C10: a POST is attempted only after the publish attempt of the same
\* invocation has been made and send_sns_notification has returned; no
\* POST comes without an earlier publish attempt and no publish comes
\* after a POST.
C10_PublishBeforePost ==
    /\ \A j \in Posts :
          /\ \E i \in Publishes : i < j
          /\ \A i \in Publishes : i < j
    /\ pc \in {"send_sns_notification", "line_130", "send_slack_notification"}
          => Posts = {}

C10_Witness ==
    /\ pc = "done"
    /\ Len(calls) = 2
    /\ calls[1].api = "sns.publish" /\ calls[1].result = "ok"
    /\ calls[2].api = "http.request" /\ calls[2].result = "ok"
====
